---- MODULE Spec2Model ----
(***************************************************************************)
(* Model of src/santander_ETL_DIO.py: class SantanderETL2025, a sequential *)
(* extract / transform / load / report pipeline.                           *)
(*                                                                         *)
(* Text (names, messages) is a sequence of tokens, so that formatting and  *)
(* str.strip() are real operations.  Python dicts are records; the two     *)
(* lists `users` and `processed_users` of run_etl_pipeline hold the same   *)
(* dict objects, so `users` holds the objects and `processed_users` holds  *)
(* references (indices into `users`).  The environment (CSV file, HTTP     *)
(* endpoint, text-generation service, file system, wall clock) is the      *)
(* nondeterministic input of each step.                                    *)
(***************************************************************************)
EXTENDS Integers, Sequences, FiniteSets, TLC

VARIABLES
    csv,              \* the input file handed to run_etl_pipeline
    pc,               \* position of run_etl_pipeline
    user_ids,         \* local user_ids (line 197)
    i,                \* 1-based position of the running for loop
    users,            \* local users (line 203): the user dict objects
    processed_users,  \* local processed_users (line 213): references into users
    success_count,    \* local success_count (line 227)
    files,            \* names of the files existing under user_updates/
    clobbered,        \* names of files that were opened for writing while they existed
    etl_report,       \* content of etl_report.json written by this process, <<>> if none
    now,              \* wall clock, in ticks
    calls,            \* this run's external calls, in order: [op, pos, ok], ok
                      \* telling whether the environment let the call succeed
    run               \* number of the current run of the script

vars == <<csv, pc, user_ids, i, users, processed_users, success_count,
          files, clobbered, etl_report, now, calls, run>>

----------------------------------------------------------------------------
(* Bounds of the model *)

\* longest UserID column
MaxIds == 2
\* identifiers are 1..MaxId
MaxId == 2
\* last clock tick
MaxTick == 2
\* clock ticks per second of the %S field
TicksPerSecond == 2
\* runs of the script in SpecRuns
MaxRuns == 2

Ids == 1..MaxId

RECURSIVE SeqsUpTo(_, _)
SeqsUpTo(S, n) ==
    IF n = 0 THEN {<<>>}
    ELSE LET shorter == SeqsUpTo(S, n - 1)
         IN  shorter \cup {Append(s, x) : s \in {t \in shorter : Len(t) = n - 1}, x \in S}

----------------------------------------------------------------------------
(* Environment *)

\* The CSV file: missing, without a UserID column, or with a UserID column.
CsvFiles ==
    {[kind |-> "missing", UserID |-> <<>>], [kind |-> "no_UserID_column", UserID |-> <<>>]}
    \cup {[kind |-> "ok", UserID |-> s] : s \in SeqsUpTo(Ids, MaxIds)}

\* Outcomes of GET {users_api_url}/{user_id}.
FetchOutcomes == {"ok", "not_found", "transport_error", "malformed_body", "missing_field"}

\* Outcomes of client.chat.completions.create and of reading its response.
GenOutcomes == {"ok", "api_error", "bad_response"}

\* Outcomes of writing one file: makedirs or open fails, json.dump fails, or all succeed.
WriteOutcomes == {"ok", "open_failed", "dump_failed"}

\* The name field the endpoint serves for each identifier.
ApiNames == <<"Leanne Graham", "Ervin Howell", "Clementine Bauch", "Patricia Lebsack">>
ApiName(id) == <<ApiNames[((id - 1) % Len(ApiNames)) + 1]>>

\* Texts the generation service may answer with (message.content).
Contents == { <<" ", "Invista no seu futuro!", "\n">>, <<"\n", " ">> }

Whitespace == {" ", "\n", "\t"}

----------------------------------------------------------------------------
(* Pure functions *)

\* str.strip(): drop leading and trailing whitespace
RECURSIVE LStrip(_)
LStrip(s) == IF s # <<>> /\ Head(s) \in Whitespace THEN LStrip(Tail(s)) ELSE s

RECURSIVE RStrip(_)
RStrip(s) ==
    IF s # <<>> /\ s[Len(s)] \in Whitespace THEN RStrip(SubSeq(s, 1, Len(s) - 1)) ELSE s

Strip(s) == RStrip(LStrip(s))

\* strftime('%Y%m%d_%H%M%S'): the clock truncated to whole seconds
Stamp(t) == t \div TicksPerSecond

----------------------------------------------------------------------------
(* The methods of SantanderETL2025 *)

Return(v) == [kind |-> "return", value |-> v]
Raise(e)  == [kind |-> "raise", value |-> e]

\* Optional[Dict]: None is <<>>, a dict d is <<d>>
None == <<>>
Some(d) == <<d>>

\* extract_users_from_csv: the UserID column as a list, [] on any exception
extract_users_from_csv(f) ==
    IF f.kind = "ok" THEN f.UserID ELSE <<>>

\* the early return left out
NoIds_never(ids) == FALSE

\* `if not user_ids` (line 199)
NoIds(ids) == ids = <<>>

\* a user record is built whatever the status code
get_user_data_any_status(user_id, outcome, json_is_request_error) ==
    IF outcome \in {"ok", "not_found"}
    THEN [kind |-> "return",
          value |-> <<[id |-> user_id, name |-> <<"?">>, news |-> <<>>]>>]
    ELSE [kind |-> "return", value |-> <<>>]

\* get_user_data. Only requests.exceptions.RequestException is caught: a KeyError
\* from a body lacking a field escapes; the JSON error of response.json() is a
\* RequestException in requests >= 2.27 and a plain ValueError before
\* (json_is_request_error says which). The account sub-dict (number, agency,
\* random balance, limit) is not read by any later step and is left out.
get_user_data(user_id, outcome, json_is_request_error) ==
    CASE outcome = "ok" ->
            Return(Some([id |-> user_id, name |-> ApiName(user_id), news |-> <<>>]))
      [] outcome = "not_found" -> Return(None)
      [] outcome = "transport_error" -> Return(None)
      [] outcome = "malformed_body" ->
            IF json_is_request_error THEN Return(None) ELSE Raise("ValueError")
      [] outcome = "missing_field" -> Raise("KeyError")

\* the fallback of generate_ai_news (line 118)
Fallback(user) ==
    user.name \o <<", invista hoje para um futuro financeiro mais seguro e próspero!">>

\* the exception handler returns no text
generate_ai_news_no_fallback(user, outcome, content) ==
    IF outcome = "ok" THEN Strip(content) ELSE <<>>

\* generate_ai_news: the stripped answer, or the fallback on any exception
generate_ai_news(user, outcome, content) ==
    IF outcome = "ok" THEN Strip(content) ELSE Fallback(user)

\* the id counted from 0
NewsItem_zero_based(user, message, t) ==
    [id          |-> Len(user.news),
     date        |-> t,
     icon        |-> "https://cdn-icons-png.flaticon.com/512/3135/3135679.png",
     description |-> message,
     category    |-> "investment_advice",
     read        |-> FALSE]

\* the news_item dict of update_user_data (lines 126-133)
NewsItem(user, message, t) ==
    [id          |-> Len(user.news) + 1,
     date        |-> t,
     icon        |-> "https://cdn-icons-png.flaticon.com/512/3135/3135679.png",
     description |-> message,
     category    |-> "investment_advice",
     read        |-> FALSE]

\* True is returned even when the save raised
update_user_data_always_true(user, message, t, outcome) ==
    [user    |-> [user EXCEPT !.news = Append(@, NewsItem(user, message, t))],
     success |-> TRUE]

\* the news item is taken back when the save raised
update_user_data_rollback(user, message, t, outcome) ==
    [user    |-> IF outcome = "ok"
                 THEN [user EXCEPT !.news = Append(@, NewsItem(user, message, t))]
                 ELSE user,
     success |-> (outcome = "ok")]

\* update_user_data: the dict after the call and the returned bool. The append
\* (line 136) comes before the save (line 139) and is not undone by the handler.
update_user_data(user, message, t, outcome) ==
    [user    |-> [user EXCEPT !.news = Append(@, NewsItem(user, message, t))],
     success |-> (outcome = "ok")]

\* the file name of _save_user_update (line 152)
FileName(user, t) == <<"user_updates/user", user.id, Stamp(t), ".json">>

\* whether _save_user_update got as far as open(filename, 'w'), which creates or
\* truncates the file
Opened(outcome) == outcome \in {"ok", "dump_failed"}

RECURSIVE SumNews(_)
SumNews(us) == IF us = <<>> THEN 0 ELSE Len(Head(us).news) + SumNews(Tail(us))

\* the message total taken from the last user alone
generate_report_last_user_only(us, t) ==
    [timestamp                |-> t,
     total_users_processed    |-> Len(us),
     users_with_news          |-> Cardinality({k \in 1..Len(us) : us[k].news # <<>>}),
     total_messages_generated |-> IF us = <<>> THEN 0 ELSE Len(us[Len(us)].news),
     processing_summary       |->
        [k \in 1..Len(us) |->
            [user_id        |-> us[k].id,
             user_name      |-> us[k].name,
             messages_count |-> Len(us[k].news),
             last_message   |-> IF us[k].news # <<>>
                                THEN us[k].news[Len(us[k].news)].description
                                ELSE <<"N/A">>]]]

\* the report dict of generate_report (lines 165-179)
generate_report(us, t) ==
    [timestamp                |-> t,
     total_users_processed    |-> Len(us),
     users_with_news          |-> Cardinality({k \in 1..Len(us) : us[k].news # <<>>}),
     total_messages_generated |-> SumNews(us),
     processing_summary       |->
        [k \in 1..Len(us) |->
            [user_id        |-> us[k].id,
             user_name      |-> us[k].name,
             messages_count |-> Len(us[k].news),
             last_message   |-> IF us[k].news # <<>>
                                THEN us[k].news[Len(us[k].news)].description
                                ELSE <<"N/A">>]]]

\* the dicts a list of references stands for
Deref(refs) == [k \in 1..Len(refs) |-> users[refs[k]]]

Min(a, b) == IF a < b THEN a ELSE b

\* a reading of datetime.now() not before t
Later(t) == t..Min(t + 1, MaxTick)

----------------------------------------------------------------------------
(* run_etl_pipeline, one action per step *)

Init ==
    /\ csv \in CsvFiles
    /\ pc = "start"
    /\ user_ids = <<>>
    /\ i = 1
    /\ users = <<>>
    /\ processed_users = <<>>
    /\ success_count = 0
    /\ files = {}
    /\ clobbered = {}
    /\ etl_report = <<>>
    /\ now = 0
    /\ calls = <<>>
    /\ run = 1

\* lines 197-203: phase 1, up to the fetch loop
Extract ==
    /\ pc = "start"
    /\ user_ids' = extract_users_from_csv(csv)
    /\ pc' = IF NoIds(user_ids') THEN "returned_none" ELSE "fetch"
    /\ i' = 1
    /\ users' = <<>>
    /\ UNCHANGED <<csv, processed_users, success_count, files, clobbered,
                   etl_report, now, calls, run>>

\* lines 204-207: one iteration of the fetch loop
FetchStep ==
    /\ pc = "fetch"
    /\ i <= Len(user_ids)
    /\ \E outcome \in FetchOutcomes, json_is_request_error \in BOOLEAN :
         LET r == get_user_data(user_ids[i], outcome, json_is_request_error)
         IN  /\ calls' = Append(calls, [op |-> "fetch", pos |-> i,
                                        ok |-> (outcome = "ok")])
             /\ IF r.kind = "raise"
                THEN pc' = "raised" /\ UNCHANGED <<users, i>>
                ELSE /\ pc' = pc
                     /\ i' = i + 1
                     /\ users' = IF r.value # None
                                 THEN Append(users, r.value[1]) ELSE users
    /\ UNCHANGED <<csv, user_ids, processed_users, success_count, files,
                   clobbered, etl_report, now, run>>

\* lines 209-213: the fetch loop is exhausted
FetchDone ==
    /\ pc = "fetch"
    /\ i > Len(user_ids)
    /\ pc' = "transform"
    /\ i' = 1
    /\ processed_users' = <<>>
    /\ UNCHANGED <<csv, user_ids, users, success_count, files, clobbered,
                   etl_report, now, calls, run>>

\* lines 215-223: one iteration of the transform loop
TransformStep ==
    /\ pc = "transform"
    /\ i <= Len(users)
    /\ \E outcome \in GenOutcomes, content \in Contents :
         LET ai_message == generate_ai_news(users[i], outcome, content)
         IN  /\ users' = [users EXCEPT
                            ![i] = [ai_generated_message |-> ai_message] @@ @]
             /\ calls' = Append(calls, [op |-> "generate", pos |-> i,
                                        ok |-> (outcome = "ok")])
    /\ processed_users' = Append(processed_users, i)
    /\ i' = i + 1
    /\ UNCHANGED <<csv, pc, user_ids, success_count, files, clobbered,
                   etl_report, now, run>>

\* lines 225-227: the transform loop is exhausted
TransformDone ==
    /\ pc = "transform"
    /\ i > Len(users)
    /\ pc' = "load"
    /\ i' = 1
    /\ success_count' = 0
    /\ UNCHANGED <<csv, user_ids, users, processed_users, files, clobbered,
                   etl_report, now, calls, run>>

\* the report call indented into the load loop
LoadStep_reports_in_loop ==
    /\ pc = "load"
    /\ i <= Len(processed_users)
    /\ \E outcome \in WriteOutcomes, t2 \in Later(now) :
         LET ref  == processed_users[i]
             user == users[ref]
             r    == update_user_data(user, user.ai_generated_message, now, outcome)
             name == FileName(r.user, t2)
         IN  /\ users' = [users EXCEPT ![ref] = r.user]
             /\ files' = IF Opened(outcome) THEN files \cup {name} ELSE files
             /\ clobbered' = IF Opened(outcome) /\ name \in files
                             THEN clobbered \cup {name} ELSE clobbered
             /\ success_count' = IF r.success THEN success_count + 1 ELSE success_count
             /\ calls' = calls \o <<[op |-> "load", pos |-> i, ok |-> (outcome = "ok")],
                                    [op |-> "report", pos |-> 1, ok |-> TRUE]>>
             /\ etl_report' = <<generate_report(
                                  [k \in 1..Len(processed_users) |-> users'[processed_users[k]]],
                                  t2)>>
             /\ now' = t2
    /\ i' = i + 1
    /\ UNCHANGED <<csv, pc, user_ids, processed_users, run>>

\* lines 229-232: one iteration of the load loop, update_user_data and
\* _save_user_update included. datetime.now() is read twice: for the news date
\* (at the clock's value) and, no earlier, for the file name (t2).
LoadStep ==
    /\ pc = "load"
    /\ i <= Len(processed_users)
    /\ \E outcome \in WriteOutcomes, t2 \in Later(now) :
         LET ref  == processed_users[i]
             user == users[ref]
             r    == update_user_data(user, user.ai_generated_message, now, outcome)
             name == FileName(r.user, t2)
         IN  /\ users' = [users EXCEPT ![ref] = r.user]
             /\ files' = IF Opened(outcome) THEN files \cup {name} ELSE files
             /\ clobbered' = IF Opened(outcome) /\ name \in files
                             THEN clobbered \cup {name} ELSE clobbered
             /\ success_count' = IF r.success THEN success_count + 1 ELSE success_count
             /\ calls' = Append(calls, [op |-> "load", pos |-> i,
                                        ok |-> (outcome = "ok")])
             /\ now' = t2
    /\ i' = i + 1
    /\ UNCHANGED <<csv, pc, user_ids, processed_users, etl_report, run>>

\* lines 234-235: the load loop is exhausted
LoadDone ==
    /\ pc = "load"
    /\ i > Len(processed_users)
    /\ pc' = "report"
    /\ UNCHANGED <<csv, user_ids, i, users, processed_users, success_count,
                   files, clobbered, etl_report, now, calls, run>>

\* lines 236-244: generate_report, which has no exception handler, and the return
ReportStep ==
    /\ pc = "report"
    /\ \E outcome \in WriteOutcomes, t \in Later(now) :
         /\ etl_report' = CASE outcome = "ok" ->
                                 <<generate_report(Deref(processed_users), t)>>
                            [] outcome = "dump_failed" -> <<>>
                            [] outcome = "open_failed" -> etl_report
         /\ pc' = IF outcome = "ok" THEN "returned" ELSE "raised"
         /\ calls' = Append(calls, [op |-> "report", pos |-> 1, ok |-> (outcome = "ok")])
         /\ now' = t
    /\ UNCHANGED <<csv, user_ids, i, users, processed_users, success_count,
                   files, clobbered, run>>

\* main() is started again: the files and the clock stay, the locals are new
NewRun ==
    /\ pc \in {"returned", "returned_none", "raised"}
    /\ run < MaxRuns
    /\ run' = run + 1
    /\ csv' \in CsvFiles
    /\ pc' = "start"
    /\ user_ids' = <<>>
    /\ i' = 1
    /\ users' = <<>>
    /\ processed_users' = <<>>
    /\ success_count' = 0
    /\ calls' = <<>>
    /\ UNCHANGED <<files, clobbered, etl_report, now>>

Next ==
    \/ Extract
    \/ FetchStep
    \/ FetchDone
    \/ TransformStep
    \/ TransformDone
    \/ LoadStep
    \/ LoadDone
    \/ ReportStep

Spec == Init /\ [][Next]_vars

NextRuns ==
    \/ Next
    \/ NewRun

SpecRuns == Init /\ [][NextRuns]_vars

----------------------------------------------------------------------------
(* Properties *)

CallsOf(op) == SelectSeq(calls, LAMBDA c : c.op = op)
IdsOf(us) == [k \in 1..Len(us) |-> us[k].id]
IsPrefix(s, t) == Len(s) <= Len(t) /\ s = SubSeq(t, 1, Len(s))
LastCall == calls[Len(calls)]
PastFetch == pc \in {"transform", "load", "report", "returned"}
PastTransform == pc \in {"load", "report", "returned"}
ThisReport == etl_report[1]

\* the input identifiers whose fetch the endpoint answered with a good record
FetchedIds ==
    LET good == SelectSeq(CallsOf("fetch"), LAMBDA c : c.ok)
    IN  [k \in 1..Len(good) |-> user_ids[good[k].pos]]

\* C1: one fetch per list entry, in list order and without retry; the users held,
\* processed, written to files, returned and reported are the entries whose
\* fetch succeeded, in input order, and the report counts exactly those.
C1_ProcessedAreTheFetched ==
    LET fetches == CallsOf("fetch")
        loads   == CallsOf("load")
    IN  /\ Len(fetches) <= Len(user_ids)
        /\ \A k \in 1..Len(fetches) : fetches[k].pos = k
        /\ PastFetch => Len(fetches) = Len(user_ids)
        /\ IdsOf(users) = FetchedIds
        /\ IsPrefix(IdsOf(Deref(processed_users)), FetchedIds)
        /\ PastTransform => IdsOf(Deref(processed_users)) = FetchedIds
        /\ IsPrefix([k \in 1..Len(loads) |-> users[processed_users[loads[k].pos]].id],
                    FetchedIds)
        /\ \A f \in files : \E k \in 1..Len(user_ids) : f[2] = user_ids[k]
        /\ pc = "returned" =>
              /\ ThisReport.total_users_processed = Len(FetchedIds)
              /\ [k \in 1..Len(ThisReport.processing_summary) |->
                     ThisReport.processing_summary[k].user_id] = FetchedIds

\* a finished run over a full-length list of which exactly one fetch failed
C1_Witness ==
    /\ pc = "returned"
    /\ Len(user_ids) = MaxIds
    /\ \E k \in 1..Len(user_ids) : ~CallsOf("fetch")[k].ok
    /\ ThisReport.total_users_processed = MaxIds - 1
    /\ Cardinality(files) = MaxIds - 1

\* C2: when extraction yields no identifier the run ends with no fetch, no
\* generation, no user file and no report.
C2_EmptyListShortCircuits ==
    (csv.kind # "ok" \/ csv.UserID = <<>>) =>
        /\ pc \in {"start", "returned_none"}
        /\ calls = <<>>
        /\ files = {}
        /\ etl_report = <<>>

C2_Witness ==
    /\ pc = "returned_none"
    /\ csv.kind = "no_UserID_column"

\* the fallback text for a name, as the specification words it
FallbackText(name) ==
    name \o <<", invista hoje para um futuro financeiro mais seguro e próspero!">>

\* C3: generation never raises; a user whose generation call failed gets the
\* fallback text with the name substituted as message, as the description of
\* the news item attached later and as last_message of the report.
C3_FailedGenerationGivesFallback ==
    LET gens == CallsOf("generate")
    IN  /\ pc = "raised" => LastCall.op # "generate"
        /\ \A k \in 1..Len(gens) :
              "ai_generated_message" \in DOMAIN users[gens[k].pos]
        /\ \A k \in 1..Len(gens) :
              LET u == users[gens[k].pos]
              IN  ~gens[k].ok =>
                    /\ u.ai_generated_message = FallbackText(u.name)
                    /\ \A n \in 1..Len(u.news) :
                          u.news[n].description = FallbackText(u.name)
                    /\ pc = "returned" =>
                          ThisReport.processing_summary[gens[k].pos].last_message
                              = FallbackText(ThisReport.processing_summary[gens[k].pos].user_name)

\* a finished run in which a generation call failed and the user was loaded
C3_Witness ==
    /\ pc = "returned"
    /\ \E k \in 1..Len(calls) :
          /\ calls[k].op = "generate"
          /\ ~calls[k].ok
          /\ users[calls[k].pos].news # <<>>
          /\ users[calls[k].pos].name = <<"Ervin Howell">>
          /\ ThisReport.processing_summary[calls[k].pos].last_message =
                <<"Ervin Howell",
                  ", invista hoje para um futuro financeiro mais seguro e próspero!">>

\* the news items of all processed users, one element per item
AllNews ==
    {<<k, n>> \in (1..Len(processed_users)) \X (1..Len(calls)) :
        n <= Len(users[processed_users[k]].news)}

\* C4: a written report's total_messages_generated is the number of news items of
\* all processed users, and is total_users_processed when each holds one item.
C4_ReportTotals ==
    pc = "returned" =>
        /\ ThisReport.total_messages_generated = Cardinality(AllNews)
        /\ (\A k \in 1..Len(processed_users) :
                Len(users[processed_users[k]].news) = 1)
           => ThisReport.total_messages_generated = ThisReport.total_users_processed

\* a report over a full-length list of users with one message each
C4_Witness ==
    /\ pc = "returned"
    /\ Len(processed_users) = MaxIds
    /\ \A k \in 1..Len(processed_users) : Len(users[processed_users[k]].news) = 1
    /\ ThisReport.total_messages_generated = MaxIds

\* C5: a failed file write raises nothing; every processed user gets its load
\* attempt, in order; the success count is the number of writes that succeeded;
\* the report phase follows and a run that returns has written the report.
C5_WriteFailureDoesNotAbort ==
    LET loads == CallsOf("load")
        good  == SelectSeq(loads, LAMBDA c : c.ok)
    IN  /\ pc = "raised" => LastCall.op # "load"
        /\ \A k \in 1..Len(loads) : loads[k].pos = k
        /\ pc = "load" => Len(loads) = i - 1
        /\ (pc \in {"report", "returned"} \/ (pc = "raised" /\ LastCall.op = "report"))
              => Len(loads) = Len(processed_users)
        /\ PastTransform => success_count = Len(good)
        /\ success_count <= Len(processed_users)
        /\ pc = "returned" => etl_report # <<>> /\ CallsOf("report") # <<>>

\* a returned run whose first write failed and whose last write succeeded
C5_Witness ==
    /\ pc = "returned"
    /\ Len(processed_users) = MaxIds
    /\ ~CallsOf("load")[1].ok
    /\ CallsOf("load")[MaxIds].ok
    /\ success_count = MaxIds - 1
    /\ etl_report # <<>>

\* C6: with at least one identifier extracted, no exception escapes
\* run_etl_pipeline, whatever the fetches, generations and writes do.
C6_NoExceptionEscapes ==
    user_ids # <<>> => pc # "raised"

\* C7: no user-file write opens a file name that an earlier write, of this run or
\* of an earlier one, has already written.
C7_NoFileWrittenTwice ==
    clobbered = {}

\* C8: a user's news is empty until the load phase and never holds more than one
\* item; when the run ends every processed user holds exactly one item, with id 1,
\* read false and the user's ai_generated_message as description; an item, once
\* appended, is never changed or removed.
C8_NewsOfEndOfRun ==
    /\ pc \in {"start", "fetch", "transform"} =>
          \A k \in 1..Len(users) : users[k].news = <<>>
    /\ \A k \in 1..Len(users) : Len(users[k].news) <= 1
    /\ pc \in {"report", "returned", "raised", "returned_none"} =>
          \A k \in 1..Len(processed_users) :
              LET u == users[processed_users[k]]
              IN  /\ Len(u.news) = 1
                  /\ u.news[1].id = 1
                  /\ u.news[1].read = FALSE
                  /\ u.news[1].description = u.ai_generated_message

C8_OneNewsItemPerUser ==
    /\ []C8_NewsOfEndOfRun
    /\ [][\A k \in 1..Len(users) :
            users[k].news # <<>> =>
                k <= Len(users') /\ users'[k].news = users[k].news]_vars

\* a returned run over a full-length list, all users loaded
C8_Witness ==
    /\ pc = "returned"
    /\ Len(processed_users) = MaxIds
    /\ \A k \in 1..Len(processed_users) : users[processed_users[k]].news # <<>>
    /\ \E k \in 1..Len(processed_users) :
          users[processed_users[k]].news[1].description = <<"Invista no seu futuro!">>

Rank(op) ==
    CASE op = "fetch" -> 1 [] op = "generate" -> 2 [] op = "load" -> 3 [] op = "report" -> 4

\* C9: fetches come before generations, generations before file writes, file
\* writes before the report; each phase handles its entries in list order, one
\* call each; the report is written at most once, and exactly once, after a load
\* attempt for every processed user, in a run that returns the list, also when
\* no fetch succeeded.
C9_SingleForwardPass ==
    /\ \A a, b \in 1..Len(calls) :
          a < b =>
            /\ Rank(calls[a].op) <= Rank(calls[b].op)
            /\ calls[a].op = calls[b].op => calls[a].pos < calls[b].pos
    /\ \A op \in {"fetch", "generate", "load", "report"} :
          \A k \in 1..Len(CallsOf(op)) : CallsOf(op)[k].pos = k
    /\ Len(CallsOf("report")) <= 1
    /\ pc = "returned" =>
          /\ Len(CallsOf("fetch")) = Len(user_ids)
          /\ Len(CallsOf("generate")) = Len(users)
          /\ Len(CallsOf("load")) = Len(processed_users)
          /\ Len(CallsOf("report")) = 1
          /\ LastCall.op = "report"
          /\ ThisReport.total_users_processed = Len(users)

\* a returned run in which every fetch failed: the report counts no user
C9_Witness ==
    /\ pc = "returned"
    /\ Len(user_ids) = MaxIds
    /\ users = <<>>
    /\ ThisReport.total_users_processed = 0
    /\ Len(calls) = MaxIds + 1

\* C10: a user whose file write failed keeps its news item, so a written report
\* has users_with_news = total_users_processed, messages_count 1 for every
\* user and never the "N/A" last_message.
C10_FailedWriteKeepsNews ==
    LET loads == CallsOf("load")
    IN  /\ \A k \in 1..Len(loads) :
              ~loads[k].ok => Len(users[processed_users[loads[k].pos]].news) = 1
        /\ pc = "returned" =>
              /\ ThisReport.users_with_news = ThisReport.total_users_processed
              /\ \A k \in 1..Len(ThisReport.processing_summary) :
                    /\ ThisReport.processing_summary[k].messages_count = 1
                    /\ ThisReport.processing_summary[k].last_message # <<"N/A">>

\* a report written after every file write failed
C10_Witness ==
    /\ pc = "returned"
    /\ Len(processed_users) = MaxIds
    /\ success_count = 0
    /\ files = {}
    /\ ThisReport.users_with_news = MaxIds

====
